---------------------------- MODULE Spec2Model ----------------------------
(* libgqe protocol layer: the GQRFC1701 v2.00 package namespace, the        *)
(* GETSERIAL and GETVER command classes and their _parse_response methods, *)
(* and the per-call execution engine that hands a response to them.        *)
EXTENDS Integers, Sequences, FiniteSets, TLC

(***************************************************************************)
(* Bounds of the model                                                     *)
(***************************************************************************)
\* longest byte string handed directly to GETSERIAL._parse_response
MaxLen == 2
\* largest number of call-time arguments a caller passes
MaxArgs == 1

Min(a, b) == IF a < b THEN a ELSE b

\* bytes used to build GETSERIAL inputs: 0x00 0x01 0x10 0xff
ByteSample == {0, 1, 16, 255}

RECURSIVE SeqsUpTo(_, _)
SeqsUpTo(S, n) ==
    IF n = 0 THEN {<< >>}
    ELSE LET shorter == SeqsUpTo(S, n - 1)
         IN  shorter \cup {Append(s, b) : s \in {t \in shorter : Len(t) = n - 1}, b \in S}

(***************************************************************************)
(* Python primitives the two commands rely on                              *)
(***************************************************************************)
\* value[a:b] on a bytes object: both ends are clamped to the length
Slice(s, a, b) == SubSeq(s, Min(a, Len(s)) + 1, Min(b, Len(s)))

\* the digits of the "x" presentation type
HexChars == <<"0", "1", "2", "3", "4", "5", "6", "7",
              "8", "9", "a", "b", "c", "d", "e", "f">>

\* format(b, "x"): lowercase hexadecimal, no prefix, no padding
RECURSIVE HexDigits(_)
HexDigits(n) ==
    IF n < 16 THEN <<HexChars[n + 1]>>
    ELSE Append(HexDigits(n \div 16), HexChars[(n % 16) + 1])

\* fill "0", align ">", to a minimum width w
RECURSIVE PadLeft(_, _)
PadLeft(s, w) == IF Len(s) >= w THEN s ELSE PadLeft(<<"0">> \o s, w)

Format02x_nopad(b) == HexDigits(b)

\* "{:0>2x}".format(b)
Format02x(b) == PadLeft(HexDigits(b), 2)

IsCont(b) == b >= 128 /\ b <= 191

\* number of bytes of the UTF-8 sequence starting at s[i]; 0 if it is ill-formed
Utf8SeqLen(s, i) ==
    LET b  == s[i]
        n  == Len(s)
        b2 == IF i + 1 <= n THEN s[i + 1] ELSE 0
        b3 == IF i + 2 <= n THEN s[i + 2] ELSE 0
        b4 == IF i + 3 <= n THEN s[i + 3] ELSE 0
    IN  IF b < 128 THEN 1
        ELSE IF b >= 194 /\ b <= 223
             THEN (IF IsCont(b2) THEN 2 ELSE 0)
        ELSE IF b = 224
             THEN (IF b2 >= 160 /\ b2 <= 191 /\ IsCont(b3) THEN 3 ELSE 0)
        ELSE IF b = 237
             THEN (IF b2 >= 128 /\ b2 <= 159 /\ IsCont(b3) THEN 3 ELSE 0)
        ELSE IF b >= 225 /\ b <= 239
             THEN (IF IsCont(b2) /\ IsCont(b3) THEN 3 ELSE 0)
        ELSE IF b = 240
             THEN (IF b2 >= 144 /\ b2 <= 191 /\ IsCont(b3) /\ IsCont(b4) THEN 4 ELSE 0)
        ELSE IF b >= 241 /\ b <= 243
             THEN (IF IsCont(b2) /\ IsCont(b3) /\ IsCont(b4) THEN 4 ELSE 0)
        ELSE IF b = 244
             THEN (IF b2 >= 128 /\ b2 <= 143 /\ IsCont(b3) /\ IsCont(b4) THEN 4 ELSE 0)
        ELSE 0

\* code point of the well-formed sequence of k bytes starting at s[i]
Utf8CodePoint(s, i, k) ==
    IF k = 1 THEN s[i]
    ELSE IF k = 2 THEN (s[i] % 32) * 64 + (s[i + 1] % 64)
    ELSE IF k = 3 THEN (s[i] % 16) * 4096 + (s[i + 1] % 64) * 64 + (s[i + 2] % 64)
    ELSE (s[i] % 8) * 262144 + (s[i + 1] % 64) * 4096 + (s[i + 2] % 64) * 64 + (s[i + 3] % 64)

\* bytes.decode(): strict UTF-8; the text is its sequence of code points
RECURSIVE Utf8From(_, _)
Utf8From(s, i) ==
    IF i > Len(s) THEN [ok |-> TRUE, text |-> << >>]
    ELSE LET k == Utf8SeqLen(s, i)
         IN  IF k = 0 THEN [ok |-> FALSE, text |-> << >>]
             ELSE LET rest == Utf8From(s, i + k)
                  IN  IF rest.ok
                      THEN [ok |-> TRUE, text |-> <<Utf8CodePoint(s, i, k)>> \o rest.text]
                      ELSE rest

decode(s) == Utf8From(s, 1)

(***************************************************************************)
(* libgqe/protocol/GQRFC1701/v2_00/__init__.py                             *)
(***************************************************************************)
V1Package == "libgqe.protocol.GQRFC1701.v1_00"
V2Package == "libgqe.protocol.GQRFC1701.v2_00"

\* the statements of the package body, by source line
Statements == <<20, 21, 22, 23, 24, 25, 26, 27, 28, 30, 44>>

\* the names each "from ... import ..." statement binds
ImportedNames(line) ==
    IF line = 20 THEN {"Protocol"}
    ELSE IF line = 21 THEN {"V1_00"}
    ELSE IF line = 22 THEN {"GETVER", "GETSERIAL", "POWER", "REBOOT", "GETGYRO", "SPEAKER",
                            "GETVOLT", "ECHO"}
    ELSE IF line = 23 THEN {"KEY", "KEYHOLD", "GETMODE", "GETSCREEN", "GETEMF", "GETEF",
                            "GETRF", "RESETRFPEAK"}
    ELSE IF line = 24 THEN {"GETCFG", "ECFG", "WCFG", "CFGUPDATE", "FACTORYRESET"}
    ELSE IF line = 25 THEN {"SETDATEYY", "SETDATEMM", "SETDATEDD", "SETTIMEHH", "SETTIMEMM",
                            "SETTIMESS"}
    ELSE IF line = 26 THEN {"GETDATETIME", "SETDATETIME"}
    ELSE IF line = 27 THEN {"SPIR", "SPIE"}
    ELSE IF line = 28 THEN {"GETBANDDATA", "SETSPECTRUMBAND"}
    ELSE {}

\* the module an import statement takes its names from
ImportSource(line) == IF line = 20 THEN "libgqe.protocol" ELSE V1Package

\* the command classes taken from v1.00 (lines 22-28)
V1Commands == UNION {ImportedNames(l) : l \in 22..28}

all_without_GETRF ==
    <<"Protocol", "V2_00",
      "GETVER", "KEY", "KEYHOLD", "GETEMF", "GETEF", "GETBANDDATA", "GETMODE", "GETSCREEN",
      "GETCFG", "ECFG", "WCFG", "GETSERIAL", "POWER", "CFGUPDATE",
      "SETDATEYY", "SETDATEMM", "SETDATEDD", "SETTIMEHH", "SETTIMEMM", "SETTIMESS",
      "GETDATETIME", "SETDATETIME",
      "FACTORYRESET", "REBOOT",
      "GETGYRO", "SPEAKER", "GETVOLT", "ECHO",
      "SPIR", "SPIE", "SETSPECTRUMBAND", "RESETRFPEAK",
      "GETXYZ", "RESETBANDDATA", "GETSPECTRUMFULLSCANFLAG">>

\* __all__
all_list ==
    <<"Protocol", "V2_00",
      "GETVER", "KEY", "KEYHOLD", "GETEMF", "GETEF", "GETBANDDATA", "GETMODE", "GETSCREEN",
      "GETCFG", "ECFG", "WCFG", "GETSERIAL", "POWER", "CFGUPDATE",
      "SETDATEYY", "SETDATEMM", "SETDATEDD", "SETTIMEHH", "SETTIMEMM", "SETTIMESS",
      "GETDATETIME", "SETDATETIME",
      "FACTORYRESET", "REBOOT",
      "GETGYRO", "SPEAKER", "GETVOLT", "ECHO",
      "SPIR", "SPIE", "GETRF", "SETSPECTRUMBAND", "RESETRFPEAK",
      "GETXYZ", "RESETBANDDATA", "GETSPECTRUMFULLSCANFLAG">>

\* the commands the docstring of V2_00 says the version adds
V2Added == {"GETXYZ", "RESETBANDDATA", "GETSPECTRUMFULLSCANFLAG"}

Range(s) == {s[k] : k \in 1..Len(s)}

\* a name the device protocol knows but no 1701 catalog publishes
UnknownNames == {"GETCPM"}

(***************************************************************************)
(* Command declarations                                                    *)
(***************************************************************************)
Bytes(n) == [kind |-> "Bytes", n |-> n, delim |-> << >>]
Terminator(d) == [kind |-> "Terminator", n |-> 0, delim |-> d]

CommandClasses == {"GETSERIAL", "GETVER"}

\* GETSERIAL: ARGUMENTS = None, RESPONSE_TYPE = Protocol.Response.Bytes(7)
GETSERIAL_ARGUMENTS == "None"
GETSERIAL_RESPONSE_TYPE == Bytes(7)

\* GETVER: ARGUMENTS = None, RESPONSE_TYPE = Protocol.Response.Terminator(b'')
GETVER_ARGUMENTS == "None"
GETVER_RESPONSE_TYPE == Terminator(<< >>)

\* the class attributes, by class
ARGUMENTS(c) == IF c = "GETSERIAL" THEN GETSERIAL_ARGUMENTS ELSE GETVER_ARGUMENTS
RESPONSE_TYPE(c) == IF c = "GETSERIAL" THEN GETSERIAL_RESPONSE_TYPE ELSE GETVER_RESPONSE_TYPE

\* offsets of the two slices of GETVER._parse_response
ModEnd == 9
ValEnd == 16

(***************************************************************************)
(* Responses a device sends                                                *)
(***************************************************************************)
PadTo(s, p, w) == s \o [k \in 1..(w - Len(s)) |-> p]

\* "GQ-EMF390", "GQ-390", "Re 2.51", "Re 2" as ASCII codes
TextEMF390 == <<71, 81, 45, 69, 77, 70, 51, 57, 48>>
Text390 == <<71, 81, 45, 51, 57, 48>>
TextRe251 == <<82, 101, 32, 50, 46, 53, 49>>
TextRe2 == <<82, 101, 32, 50>>

\* padding bytes a firmware fills a short field with: NUL, space, 0xff
PadBytes == {0, 32, 255}

GetverWires ==
    {TextEMF390 \o TextRe251,
     TextEMF390 \o TextRe251 \o <<13, 10>>,
     TextEMF390 \o TextRe251 \o <<255>>,
     \* a two-byte character across the boundary of the two slices
     SubSeq(TextEMF390, 1, 8) \o <<195, 169>> \o SubSeq(TextRe251, 2, 7),
     \* a two-byte character inside the model field
     SubSeq(TextEMF390, 1, 6) \o <<195, 169, 48>> \o TextRe251}
    \cup {PadTo(Text390, p, ModEnd) \o PadTo(TextRe2, p, ValEnd - ModEnd) : p \in PadBytes}

SerialWires ==
    {<<0, 17, 34, 51, 68, 85, 102>>,
     <<18, 171, 0, 255, 10, 1, 16>>}

Wires(c) == IF c = "GETSERIAL" THEN SerialWires ELSE GetverWires

\* byte strings _parse_response is called with directly
Values(c) ==
    IF c = "GETSERIAL" THEN SeqsUpTo(ByteSample, MaxLen) \cup SerialWires
    ELSE GetverWires

(***************************************************************************)
(* State                                                                   *)
(***************************************************************************)
VARIABLES
    mpc,        \* index in Statements of the next statement of the package body
    namespace,  \* names bound in the v2_00 package: name -> where it comes from
    all,        \* __all__ of the v2_00 package
    pc,         \* state of the current command execution
    cmd,        \* command (or name) of the current call
    nargs,      \* number of call-time arguments
    wire,       \* bytes the device has still to send
    rx,         \* bytes read from the transport so far
    value,      \* argument of _parse_response
    line,       \* source line of _parse_response about to run, 0 outside it
    r,          \* GETSERIAL._parse_response: r
    i,          \* GETSERIAL._parse_response: position of the for loop
    mod,        \* GETVER._parse_response: mod
    val,        \* GETVER._parse_response: val
    result,     \* outcome of the last finished call
    err,        \* failure kind of the last failed call
    rem         \* history: one earlier finished _parse_response call

vars == <<mpc, namespace, all, pc, cmd, nargs, wire, rx, value, line, r, i, mod, val,
          result, err, rem>>

NoResult == [kind |-> "none", val |-> << >>, exc |-> ""]
Ok(v) == [kind |-> "ok", val |-> v, exc |-> ""]
Raise(e) == [kind |-> "raise", val |-> << >>, exc |-> e]

NoCall == [cmd |-> "none", value |-> << >>, result |-> NoResult]

Loaded == mpc > Len(Statements)
Ready == Loaded /\ pc \in {"Idle", "Resolved", "Done", "Failed"}

Init ==
    /\ mpc = 1
    /\ namespace = << >>
    /\ all = << >>
    /\ pc = "Idle"
    /\ cmd = "none"
    /\ nargs = 0
    /\ wire = << >>
    /\ rx = << >>
    /\ value = << >>
    /\ line = 0
    /\ r = << >>
    /\ i = 0
    /\ mod = << >>
    /\ val = << >>
    /\ result = NoResult
    /\ err = ""
    /\ rem = NoCall

sessionVars == <<pc, cmd, nargs, wire, rx, value, line, r, i, mod, val, result, err, rem>>

(***************************************************************************)
(* Executing the body of the v2_00 package                                 *)
(***************************************************************************)
\* from ... import ...: every listed name is bound to the object of the source module
ImportStatement ==
    /\ ~Loaded
    /\ Statements[mpc] \in 20..28
    /\ namespace' = [n \in DOMAIN namespace \cup ImportedNames(Statements[mpc]) |->
                        IF n \in ImportedNames(Statements[mpc])
                        THEN [module |-> ImportSource(Statements[mpc]), base |-> ""]
                        ELSE namespace[n]]
    /\ mpc' = mpc + 1
    /\ UNCHANGED <<all, sessionVars>>

\* __all__ = [...]
AssignAll ==
    /\ ~Loaded
    /\ Statements[mpc] = 30
    /\ all' = all_list
    /\ mpc' = mpc + 1
    /\ UNCHANGED <<namespace, sessionVars>>

\* class V2_00(V1_00)
ClassStatement ==
    /\ ~Loaded
    /\ Statements[mpc] = 44
    /\ "V1_00" \in DOMAIN namespace
    /\ namespace' = [n \in DOMAIN namespace \cup {"V2_00"} |->
                        IF n = "V2_00" THEN [module |-> V2Package, base |-> "V1_00"]
                        ELSE namespace[n]]
    /\ mpc' = mpc + 1
    /\ UNCHANGED <<all, sessionVars>>

(***************************************************************************)
(* Looking a name up in the loaded package                                 *)
(***************************************************************************)
Lookup(name) ==
    /\ Ready
    /\ cmd' = name
    /\ IF name \in DOMAIN namespace
       THEN /\ pc' = "Resolved"
            /\ result' = Ok(namespace[name])
            /\ err' = ""
       ELSE /\ pc' = "Failed"
            /\ result' = NoResult
            /\ err' = "UnsupportedCommandError"
    /\ nargs' = 0 /\ wire' = << >> /\ rx' = << >> /\ value' = << >> /\ line' = 0
    /\ UNCHANGED <<mpc, namespace, all, r, i, mod, val, rem>>

(***************************************************************************)
(* One command execution: Idle -> Encoding -> Sending -> Receiving ->      *)
(* Decoding -> Done | Failed                                               *)
(***************************************************************************)
Fail(e) ==
    /\ pc' = "Failed"
    /\ err' = e
    /\ result' = NoResult
    /\ nargs' = 0 /\ wire' = << >> /\ rx' = << >> /\ value' = << >> /\ line' = 0

Execute(c, n) ==
    /\ Ready
    /\ pc' = "Encoding"
    /\ cmd' = c
    /\ nargs' = n
    /\ wire' = << >> /\ rx' = << >> /\ value' = << >> /\ line' = 0
    /\ result' = NoResult /\ err' = ""
    /\ UNCHANGED <<mpc, namespace, all, r, i, mod, val, rem>>

\* arguments are checked against ARGUMENTS before any byte is sent
Encode ==
    /\ pc = "Encoding"
    /\ IF ARGUMENTS(cmd) = "None" /\ nargs > 0
       THEN Fail("ArgumentError")
       ELSE /\ pc' = "Sending"
            /\ nargs' = 0
            /\ UNCHANGED <<wire, rx, value, line, result, err>>
    /\ UNCHANGED <<mpc, namespace, all, cmd, r, i, mod, val, rem>>

\* the request goes out and the device starts answering with w
Send(w) ==
    /\ pc = "Sending"
    /\ pc' = "Receiving"
    /\ wire' = w
    /\ UNCHANGED <<mpc, namespace, all, cmd, nargs, rx, value, line, r, i, mod, val,
                   result, err, rem>>

SendFail ==
    /\ pc = "Sending"
    /\ Fail("TransportError")
    /\ UNCHANGED <<mpc, namespace, all, cmd, r, i, mod, val, rem>>

EndsWith(s, d) == Len(s) >= Len(d) /\ SubSeq(s, Len(s) - Len(d) + 1, Len(s)) = d

\* the bytes read so far make up one response of the declared shape
ShapeSatisfied(shape, s) ==
    IF shape.kind = "Bytes" THEN Len(s) = shape.n ELSE EndsWith(s, shape.delim)

\* one more byte arrives
Receive ==
    /\ pc = "Receiving"
    /\ wire # << >>
    /\ LET shape == RESPONSE_TYPE(cmd)
       IN  \/ shape.kind = "Bytes" /\ Len(rx) < shape.n
           \/ shape.kind = "Terminator" /\ (shape.delim = << >> \/ ~EndsWith(rx, shape.delim))
    /\ rx' = Append(rx, Head(wire))
    /\ wire' = Tail(wire)
    /\ UNCHANGED <<mpc, namespace, all, pc, cmd, nargs, value, line, r, i, mod, val,
                   result, err, rem>>

Timeout_stuck ==
    /\ pc = "Receiving"
    /\ UNCHANGED vars

\* the transport gives up waiting
Timeout ==
    /\ pc = "Receiving"
    /\ Fail("ResponseShapeError")
    /\ UNCHANGED <<mpc, namespace, all, cmd, r, i, mod, val, rem>>

\* first line of the body of _parse_response
FirstLine(c) == IF c = "GETSERIAL" THEN 28 ELSE 31

\* the response is complete and is handed to _parse_response
Complete ==
    /\ pc = "Receiving"
    /\ ShapeSatisfied(RESPONSE_TYPE(cmd), rx)
    /\ pc' = "Decoding"
    /\ value' = LET shape == RESPONSE_TYPE(cmd)
                IN  IF shape.kind = "Terminator"
                    THEN SubSeq(rx, 1, Len(rx) - Len(shape.delim))
                    ELSE rx
    /\ line' = FirstLine(cmd)
    /\ wire' = << >> /\ rx' = << >>
    /\ UNCHANGED <<mpc, namespace, all, cmd, nargs, r, i, mod, val, result, err, rem>>

\* _parse_response called directly on an instance
Call(c, v) ==
    /\ Ready
    /\ pc' = "Decoding"
    /\ cmd' = c
    /\ value' = v
    /\ line' = FirstLine(c)
    /\ nargs' = 0 /\ wire' = << >> /\ rx' = << >>
    /\ result' = NoResult /\ err' = ""
    /\ UNCHANGED <<mpc, namespace, all, r, i, mod, val, rem>>

\* the call ends: its frame is gone, its outcome is the caller's
Finish(res) ==
    /\ result' = res
    /\ pc' = IF res.kind = "ok" THEN "Done" ELSE "Failed"
    /\ err' = res.exc
    /\ line' = 0
    /\ r' = << >> /\ i' = 0 /\ mod' = << >> /\ val' = << >>
    /\ rem' \in {rem} \cup (IF rem.cmd = "none"
                            THEN {[cmd |-> cmd, value |-> value, result |-> res]}
                            ELSE {})
    /\ UNCHANGED <<mpc, namespace, all, cmd, nargs, wire, rx, value>>

(***************************************************************************)
(* GETSERIAL._parse_response                                               *)
(***************************************************************************)
GETSERIAL_r_shared == IF rem.cmd = "GETSERIAL" THEN rem.result.val ELSE << >>

\* line 28: r = ''
GETSERIAL_r == << >>

GETSERIAL_add_front(acc, b) == Format02x(b) \o acc

\* line 30: r += "{:0>2x}".format(b)
GETSERIAL_add(acc, b) == acc \o Format02x(b)

GETSERIAL_init ==
    /\ pc = "Decoding" /\ cmd = "GETSERIAL" /\ line = 28
    /\ r' = GETSERIAL_r
    /\ i' = 0
    /\ line' = 29
    /\ UNCHANGED <<mpc, namespace, all, pc, cmd, nargs, wire, rx, value, mod, val,
                   result, err, rem>>

\* lines 29-30: the next byte of bytearray(value)
GETSERIAL_loop ==
    /\ pc = "Decoding" /\ cmd = "GETSERIAL" /\ line = 29
    /\ i < Len(value)
    /\ r' = GETSERIAL_add(r, value[i + 1])
    /\ i' = i + 1
    /\ UNCHANGED <<mpc, namespace, all, pc, cmd, nargs, wire, rx, value, line, mod, val,
                   result, err, rem>>

\* line 31: return r, once the loop is exhausted
GETSERIAL_return ==
    /\ pc = "Decoding" /\ cmd = "GETSERIAL" /\ line = 29
    /\ i = Len(value)
    /\ Finish(Ok(r))

(***************************************************************************)
(* GETVER._parse_response                                                  *)
(***************************************************************************)
GETVER_mod_short(v) == Slice(v, 0, ModEnd - 1)

\* line 31: mod = value[0:9]
GETVER_mod(v) == Slice(v, 0, ModEnd)

GETVER_val_long(v) == Slice(v, ModEnd, ValEnd + 1)

\* line 32: val = value[9:16]
GETVER_val(v) == Slice(v, ModEnd, ValEnd)

\* line 33: return mod.decode(), val.decode()
GETVER_result(m, v) ==
    IF decode(m).ok /\ decode(v).ok
    THEN Ok(<<decode(m).text, decode(v).text>>)
    ELSE Raise("UnicodeDecodeError")

GETVER_slice_mod ==
    /\ pc = "Decoding" /\ cmd = "GETVER" /\ line = 31
    /\ mod' = GETVER_mod(value)
    /\ line' = 32
    /\ UNCHANGED <<mpc, namespace, all, pc, cmd, nargs, wire, rx, value, r, i, val,
                   result, err, rem>>

GETVER_slice_val ==
    /\ pc = "Decoding" /\ cmd = "GETVER" /\ line = 32
    /\ val' = GETVER_val(value)
    /\ line' = 33
    /\ UNCHANGED <<mpc, namespace, all, pc, cmd, nargs, wire, rx, value, r, i, mod,
                   result, err, rem>>

GETVER_return ==
    /\ pc = "Decoding" /\ cmd = "GETVER" /\ line = 33
    /\ Finish(GETVER_result(mod, val))

(***************************************************************************)
(* Specification                                                           *)
(***************************************************************************)
Next ==
    \/ ImportStatement
    \/ AssignAll
    \/ ClassStatement
    \/ \E name \in Range(all_list) \cup UnknownNames : Lookup(name)
    \/ \E c \in CommandClasses, n \in 0..MaxArgs : Execute(c, n)
    \/ Encode
    \/ \E w \in Wires(cmd) : Send(w)
    \/ SendFail
    \/ Receive
    \/ Timeout
    \/ Complete
    \/ \E c \in CommandClasses : \E v \in Values(c) : Call(c, v)
    \/ GETSERIAL_init
    \/ GETSERIAL_loop
    \/ GETSERIAL_return
    \/ GETVER_slice_mod
    \/ GETVER_slice_val
    \/ GETVER_return

Spec == Init /\ [][Next]_vars

\* the transport honours the caller's timeout
FairSpec == Spec /\ WF_vars(Timeout)

(***************************************************************************)
(* Properties                                                              *)
(***************************************************************************)
\* a _parse_response call of command c has ended, with a value or an exception
Decoded(c) == cmd = c /\ pc \in {"Done", "Failed"} /\ result.kind \in {"ok", "raise"}

LowerHexDigit(d) ==
    IF d < 10 THEN ToString(d)
    ELSE IF d = 10 THEN "a" ELSE IF d = 11 THEN "b" ELSE IF d = 12 THEN "c"
    ELSE IF d = 13 THEN "d" ELSE IF d = 14 THEN "e" ELSE "f"

LowerHex == {LowerHexDigit(d) : d \in 0..15}

IsAscii(s) == \A k \in 1..Len(s) : s[k] < 128

\* C1: GETSERIAL._parse_response turns n bytes into 2n lowercase hex digits, and
\* two distinct inputs of the same length never give the same string.
C1_HexLengthAndInjective ==
    Decoded("GETSERIAL") =>
        /\ result.kind = "ok"
        /\ Len(result.val) = 2 * Len(value)
        /\ \A k \in 1..Len(result.val) : result.val[k] \in LowerHex
        /\ (rem.cmd = "GETSERIAL" /\ Len(rem.value) = Len(value) /\ rem.value # value)
               => rem.result.val # result.val

C1_Witness ==
    /\ Decoded("GETSERIAL") /\ Len(value) = 2 /\ value[1] < 16
    /\ rem.cmd = "GETSERIAL" /\ Len(rem.value) = 2 /\ rem.value # value

\* C2: GETSERIAL takes no arguments and reads exactly 7 bytes; a 7-byte response
\* decodes to 14 characters, characters 2i and 2i+1 being the two hex digits of
\* byte i in receive order; 00 11 22 33 44 55 66 gives "00112233445566".
C2_SerialSevenBytes ==
    /\ ARGUMENTS("GETSERIAL") = "None"
    /\ RESPONSE_TYPE("GETSERIAL") = Bytes(7)
    /\ (Decoded("GETSERIAL") /\ Len(value) = 7) =>
          /\ result.kind = "ok"
          /\ Len(result.val) = 14
          /\ \A k \in 0..6 :
                /\ result.val[2 * k + 1] = LowerHexDigit(value[k + 1] \div 16)
                /\ result.val[2 * k + 2] = LowerHexDigit(value[k + 1] % 16)
          /\ (value = <<0, 17, 34, 51, 68, 85, 102>> =>
                result.val = <<"0", "0", "1", "1", "2", "2", "3", "3", "4", "4",
                               "5", "5", "6", "6">>)

C2_Witness == Decoded("GETSERIAL") /\ value = <<0, 17, 34, 51, 68, 85, 102>>

\* C3: for 9 bytes of ASCII model text followed by 7 bytes of ASCII version text,
\* GETVER._parse_response returns (text of bytes[0:9], text of bytes[9:16]) with
\* every character at its position, padding bytes included.
C3_GetverAsciiFields ==
    (Decoded("GETVER") /\ Len(value) = 16 /\ IsAscii(value)) =>
        /\ result.kind = "ok"
        /\ Len(result.val[1]) = 9
        /\ Len(result.val[2]) = 7
        /\ \A k \in 1..9 : result.val[1][k] = value[k]
        /\ \A k \in 1..7 : result.val[2][k] = value[9 + k]

C3_Witness ==
    /\ Decoded("GETVER") /\ Len(value) = 16 /\ IsAscii(value)
    /\ value[9] = 0 /\ value[16] = 0

\* C4: a decode ends with a decoded value or with DecodeError, never with any
\* other failure.
C4_DecodeTotal ==
    (cmd \in CommandClasses /\ result.kind = "raise") => result.exc = "DecodeError"

WellFormed(shape) ==
    IF shape.kind = "Bytes" THEN shape.n >= 0 ELSE shape.delim # << >>

\* C5: the response shape a command is read with is well formed: a fixed-bytes
\* shape has n >= 0 and a terminator shape has a non-empty delimiter.
C5_ShapesWellFormed == pc = "Receiving" => WellFormed(RESPONSE_TYPE(cmd))

\* C6: every command name v2.00 takes from v1.00 is published in the v2.00 catalog
\* and bound to the v1.00 definition, and V2_00 is built on V1_00.
C6_BaseCommandsKept ==
    /\ Loaded =>
          /\ \A n \in V1Commands :
                /\ n \in Range(all)
                /\ n \in DOMAIN namespace
                /\ namespace[n] = [module |-> V1Package, base |-> ""]
          /\ namespace["V2_00"].base = "V1_00"
    /\ (pc = "Failed" /\ err = "UnsupportedCommandError") => cmd \notin V1Commands

C6_Witness == pc = "Resolved" /\ cmd = "GETRF" /\ result.val.module = V1Package

\* C7: every name the v2.00 catalog publishes resolves; in particular looking up
\* GETXYZ, RESETBANDDATA or GETSPECTRUMFULLSCANFLAG in v2.00 succeeds.
C7_PublishedNamesResolve ==
    (pc = "Failed" /\ err = "UnsupportedCommandError") => cmd \notin Range(all)

\* C8: decoding the same bytes with the same command twice, whatever calls come
\* in between, gives the identical value or the identical failure.
C8_NoHiddenState ==
    (cmd \in CommandClasses /\ Decoded(cmd) /\ rem.cmd = cmd /\ rem.value = value)
        => rem.result = result

C8_Witness ==
    /\ Decoded("GETSERIAL") /\ rem.cmd = "GETSERIAL" /\ rem.value = value
    /\ Len(value) = 7

\* C9: a command execution that is receiving always leaves that state: the
\* response is completed, or the execution fails with ResponseShapeError.
C9_ReceivingEnds ==
    (pc = "Receiving") ~> (pc = "Decoding" \/ (pc = "Failed" /\ err = "ResponseShapeError"))

C9_Witness == pc = "Failed" /\ err = "ResponseShapeError" /\ cmd = "GETSERIAL"

\* C10 as stated: any input shorter than 16 bytes that is valid text decodes to a
\* pair of shortened strings, and an input longer than 16 bytes decodes as its
\* first 16 bytes do.
C10_Original ==
    Decoded("GETVER") =>
        /\ (Len(value) < ValEnd /\ decode(value).ok) => result.kind = "ok"
        /\ (rem.cmd = "GETVER" /\ Slice(rem.value, 0, ValEnd) = Slice(value, 0, ValEnd))
              => rem.result = result

\* C10 amended: any input shorter than 16 bytes whose bytes[0:9] and bytes[9:16]
\* are each valid text decodes to a pair of shortened strings, never failing for
\* its length; two inputs that agree on bytes[0:16] decode alike.
C10_Amended ==
    Decoded("GETVER") =>
        /\ (/\ Len(value) < ValEnd
            /\ decode(Slice(value, 0, ModEnd)).ok
            /\ decode(Slice(value, ModEnd, ValEnd)).ok)
              => /\ result.kind = "ok"
                 /\ Len(result.val[1]) + Len(result.val[2]) <= Len(value)
        /\ (rem.cmd = "GETVER" /\ Slice(rem.value, 0, ValEnd) = Slice(value, 0, ValEnd))
              => rem.result = result

C10_Witness ==
    /\ Decoded("GETVER") /\ Len(value) > ValEnd
    /\ rem.cmd = "GETVER" /\ Len(rem.value) = ValEnd
    /\ Slice(rem.value, 0, ValEnd) = Slice(value, 0, ValEnd)

=============================================================================
